---- MODULE Spec2Model ----
(***************************************************************************)
(* Rule engine of the gem-and-card game: GameState / PlayerState           *)
(* (gems/state.py), the action algebra (gems/actions.py) and the Engine    *)
(* that owns the decks and the action history (gems/engine.py).            *)
(*                                                                         *)
(* GemList values held by the bank and the players are total functions     *)
(* Gem -> Int (GemList.get returns 0 for an absent key).  GemList values   *)
(* carried by actions (ret, payment) are functions whose DOMAIN is the     *)
(* set of keys of the underlying dict, so that an empty bag, a missing     *)
(* bag (None) and dict equality are told apart as the code tells them.     *)
(***************************************************************************)
EXTENDS Integers, Sequences, FiniteSets, TLC

(***************************************************************************)
(* Bound of the model: the number of calls a driver makes on an engine     *)
(* after it has been constructed.                                          *)
(***************************************************************************)
MaxSteps == 2

(* GameConfig defaults and the constants written into the code. *)
COIN_DEFAULT_INIT == <<4, 4, 5, 7, 7>>
coin_gold_init == 5
coin_max_count_per_player == 10
coin_min_count_take2_in_deck == 4
card_visible_count == 4
per_level == 4
card_max_count_reserved == 3

(* GameConfig.__post_init__: coin_init when the caller gives none. *)
coin_init(num_players) ==
  COIN_DEFAULT_INIT[(IF num_players > 5 THEN num_players ELSE 5) - 1 + 1]

(***************************************************************************)
(* Gems.  The model keeps three of the five standard colours; the code     *)
(* treats the standard colours alike and singles out Gold only.            *)
(***************************************************************************)
GOLD == "gold"
StdGems == {"red", "blue", "white"}
Gem == StdGems \cup {GOLD}

EmptyBag == [g \in {} |-> 0]
ZeroGems == [g \in Gem |-> 0]

RECURSIVE SumOver(_, _)
SumOver(f, S) ==
  IF S = {} THEN 0
  ELSE LET x == CHOOSE y \in S : TRUE IN f[x] + SumOver(f, S \ {x})

(* GemList.count: the sum of all stored amounts. *)
count(bag) == SumOver(bag, DOMAIN bag)

(* GemList.get: 0 for a key that is not stored. *)
get(bag, g) == IF g \in DOMAIN bag THEN bag[g] ELSE 0

(* Truthiness of an optional GemList: None and the empty list are falsy. *)
Truthy(has, bag) == has /\ DOMAIN bag # {}

(***************************************************************************)
(* The card catalogue (an external asset file): five level-1 cards, one    *)
(* level-2 card and no level-3 card, so that one deck refills the grid,    *)
(* one runs dry and one is absent.                                         *)
(***************************************************************************)
Cards == 1..6
Levels == {1, 2}
card_levels == <<1, 2, 3>>

CardLevel(c) == IF c <= 5 THEN 1 ELSE 2
CardPoints(c) == CASE c = 1 -> 1 [] c = 2 -> 0 [] c = 3 -> 2
                   [] c = 4 -> 0 [] c = 5 -> 1 [] OTHER -> 3
CardBonus(c) == CASE c = 1 -> "red" [] c = 2 -> "none" [] c = 3 -> "blue"
                  [] c = 4 -> "red" [] c = 5 -> "white" [] OTHER -> "blue"
CardCost(c) == CASE c = 1 -> EmptyBag
                 [] c = 2 -> [g \in {"red"} |-> 1]
                 [] c = 3 -> [g \in {"red", "blue"} |-> 1]
                 [] c = 4 -> [g \in {"red"} |-> 2]
                 [] c = 5 -> [g \in {"white"} |-> 1]
                 [] OTHER -> [g \in {"red", "blue"} |-> IF g = "red" THEN 2 ELSE 1]

(* The catalogue grouped by level, in file order (shuffle_assets). *)
CatalogueDeck(lvl) == IF lvl = 1 THEN <<1, 2, 3, 4, 5>>
                      ELSE IF lvl = 2 THEN <<6>> ELSE <<>>


(***************************************************************************)
(* Sequence helpers with Python's indexing: seq[i] accepts -len <= i < len *)
(* and a negative i counts from the end; list.pop(i) removes that element. *)
(***************************************************************************)
PyIndexOK(seq, i) == -Len(seq) <= i /\ i < Len(seq)
PyPos(seq, i) == IF i < 0 THEN i + Len(seq) + 1 ELSE i + 1
PyAt(seq, i) == seq[PyPos(seq, i)]
RemoveAt(seq, k) == [j \in 1..(Len(seq) - 1) |-> IF j < k THEN seq[j] ELSE seq[j + 1]]
SeqSet(seq) == {seq[j] : j \in 1..Len(seq)}
Min(a, b) == IF a < b THEN a ELSE b
Max(a, b) == IF a > b THEN a ELSE b

(* _replace_tuple: the players tuple with seat i replaced. *)
_replace_tuple(v, i, d) == [v EXCEPT ![i] = d]

(***************************************************************************)
(* Actions.  One record shape for the five variants; the fields a variant  *)
(* does not have keep the values of BaseAction.  gems is the multiset of   *)
(* the tuple Take3Action.gems; idx_kind/idx is the CardIdx ("none" when    *)
(* idx is None); card is the id of the cross-check card, 0 for None.       *)
(***************************************************************************)
BaseAction ==
  [type |-> "none", gems |-> ZeroGems, has_ret |-> FALSE, ret |-> EmptyBag,
   gem |-> "none", count |-> 0, idx_kind |-> "none", idx |-> 0, card |-> 0,
   payment |-> EmptyBag, take_gold |-> FALSE, ret_gem |-> "none"]

Take3Action(gems, has_ret, ret) ==
  [BaseAction EXCEPT !.type = "take_3_different", !.gems = gems,
                     !.has_ret = has_ret, !.ret = ret]
Take2Action(gem, cnt, has_ret, ret) ==
  [BaseAction EXCEPT !.type = "take_2_same", !.gem = gem, !.count = cnt,
                     !.has_ret = has_ret, !.ret = ret]
BuyCardAction(kind, i, card, payment) ==
  [BaseAction EXCEPT !.type = "buy_card", !.idx_kind = kind, !.idx = i,
                     !.card = card, !.payment = payment]
ReserveCardAction(kind, i, card, take_gold, ret_gem) ==
  [BaseAction EXCEPT !.type = "reserve_card", !.idx_kind = kind, !.idx = i,
                     !.card = card, !.take_gold = take_gold, !.ret_gem = ret_gem]
NoopAction == [BaseAction EXCEPT !.type = "noop"]

(***************************************************************************)
(* PlayerState.  discounts is computed by the constructor from the         *)
(* purchased cards (__post_init__).                                        *)
(***************************************************************************)
(* A histogram that also counts the cards without a bonus under every colour. *)
Histogram_counts_plain(purchased) ==
  [g \in Gem |-> Cardinality({j \in 1..Len(purchased) :
                                CardBonus(purchased[j]) \in {g, "none"}})]

Histogram(purchased) ==
  [g \in Gem |-> Cardinality({j \in 1..Len(purchased) : CardBonus(purchased[j]) = g})]

PlayerState(seat_id, gems, score, reserved, purchased) ==
  [seat_id |-> seat_id, gems |-> gems, score |-> score,
   reserved_cards |-> reserved, purchased_cards |-> purchased,
   discounts |-> Histogram(purchased)]

(* The visible roles of a GameState that is built without them, as every  *)
(* construction but the one in Engine.new is.                              *)
visible_roles_default == <<>>

GameState(players, bank, visible, turn, last_action) ==
  [players |-> players, bank |-> bank, visible_cards |-> visible,
   visible_roles |-> visible_roles_default, turn |-> turn, last_action |-> last_action]

NumPlayers(s) == Cardinality(DOMAIN s.players)
Seat(s) == s.turn % NumPlayers(s)

(* _apply_discounts: the cost after discounts, floored at zero per colour. *)
_apply_discounts(cost, discounts) ==
  [g \in DOMAIN cost |-> Max(0, cost[g] - discounts[g])]

(***************************************************************************)
(* PlayerState.can_afford: every exact payment dict for the card.          *)
(***************************************************************************)
Deficit(eff, spend) == SumOver([g \in DOMAIN eff |-> eff[g] - spend[g]], DOMAIN eff)

Pay(eff, spend) ==
  LET deficit == Deficit(eff, spend)
      keys == {g \in DOMAIN eff : spend[g] > 0}
              \cup (IF deficit > 0 THEN {GOLD} ELSE {})
  IN [g \in keys |-> IF g = GOLD THEN deficit ELSE spend[g]]

(* The spend tuples of the product loop that pass the Gold test. *)
SpendCombos(player, card) ==
  LET eff == _apply_discounts(CardCost(card), player.discounts)
  IN {c \in [DOMAIN eff -> 0..SumOver(eff, DOMAIN eff)] :
        /\ \A g \in DOMAIN eff : c[g] <= Min(player.gems[g], eff[g])
        /\ Deficit(eff, c) <= player.gems[GOLD]}

(* can_afford without the test of the deficit against the held Gold. *)
can_afford_any_deficit(player, card) ==
  LET eff == _apply_discounts(CardCost(card), player.discounts)
      combos == {c \in [DOMAIN eff -> 0..SumOver(eff, DOMAIN eff)] :
                   \A g \in DOMAIN eff : c[g] <= Min(player.gems[g], eff[g])}
  IN IF \A g \in DOMAIN eff : eff[g] = 0
     THEN {EmptyBag}
     ELSE {Pay(eff, c) : c \in combos}

can_afford(player, card) ==
  LET eff == _apply_discounts(CardCost(card), player.discounts)
      gold_available == player.gems[GOLD]
      top == SumOver(eff, DOMAIN eff)
      combos == {c \in [DOMAIN eff -> 0..top] :
                   \A g \in DOMAIN eff : c[g] <= Min(player.gems[g], eff[g])}
  IN IF \A g \in DOMAIN eff : eff[g] = 0
     THEN {EmptyBag}
     ELSE {Pay(eff, c) : c \in {d \in combos : Deficit(eff, d) <= gold_available}}

check_afford(player, card, payment) == payment \in can_afford(player, card)

(* can_reserve with <= in place of <. *)
can_reserve_inclusive(player) == Len(player.reserved_cards) <= card_max_count_reserved

(* PlayerState.can_reserve *)
can_reserve(player) == Len(player.reserved_cards) < card_max_count_reserved


(***************************************************************************)
(* Returns of a Take action moved from the player to the bank.             *)
(***************************************************************************)
RetAmount(a, g) == IF Truthy(a.has_ret, a.ret) THEN get(a.ret, g) ELSE 0
RetCount(a) == IF Truthy(a.has_ret, a.ret) THEN count(a.ret) ELSE 0

(***************************************************************************)
(* Take3Action                                                             *)
(***************************************************************************)
Take3_check_without_state(a) ==
  /\ SumOver(a.gems, Gem) <= 3
  /\ \A g \in Gem : a.gems[g] <= 1
  /\ ~(Truthy(a.has_ret, a.ret) /\ \E g \in DOMAIN a.ret : a.gems[g] > 0)
  /\ a.gems[GOLD] = 0

Take3_check_with_state(a, player, s) ==
  /\ \A g \in Gem : a.gems[g] > 0 => s.bank[g] > 0
  /\ Truthy(a.has_ret, a.ret) => \A g \in DOMAIN a.ret : player.gems[g] >= a.ret[g]
  /\ count(player.gems) + SumOver(a.gems, Gem) - RetCount(a) <= coin_max_count_per_player

(* Take3Action._apply without the credit of the returned tokens to the bank. *)
Take3_apply_ret_lost(a, player, s) ==
  LET bank == [g \in Gem |-> s.bank[g] - a.gems[g]]
      player_gems == [g \in Gem |-> player.gems[g] + a.gems[g] - RetAmount(a, g)]
      new_player == PlayerState(player.seat_id, player_gems, player.score,
                                player.reserved_cards, player.purchased_cards)
  IN GameState(_replace_tuple(s.players, player.seat_id, new_player), bank,
               s.visible_cards, s.turn, a)

Take3_apply(a, player, s) ==
  LET bank == [g \in Gem |-> s.bank[g] - a.gems[g] + RetAmount(a, g)]
      player_gems == [g \in Gem |-> player.gems[g] + a.gems[g] - RetAmount(a, g)]
      new_player == PlayerState(player.seat_id, player_gems, player.score,
                                player.reserved_cards, player.purchased_cards)
  IN GameState(_replace_tuple(s.players, player.seat_id, new_player), bank,
               s.visible_cards, s.turn, a)

(***************************************************************************)
(* Take2Action                                                             *)
(***************************************************************************)
Take2_check_without_state(a) ==
  /\ a.gem # GOLD
  /\ a.count = 2
  /\ ~(a.has_ret /\ a.gem \in DOMAIN a.ret)

Take2_check_with_state(a, player, s) ==
  /\ s.bank[a.gem] >= coin_min_count_take2_in_deck
  /\ Truthy(a.has_ret, a.ret) => \A g \in DOMAIN a.ret : player.gems[g] >= a.ret[g]
  /\ count(player.gems) + a.count - RetCount(a) <= coin_max_count_per_player

(* Take2Action._apply that leaves last_action as it was. *)
Take2_apply_keeps_last(a, player, s) ==
  LET taken(g) == IF g = a.gem THEN a.count ELSE 0
      bank == [g \in Gem |-> s.bank[g] - taken(g) + RetAmount(a, g)]
      player_gems == [g \in Gem |-> player.gems[g] + taken(g) - RetAmount(a, g)]
      new_player == PlayerState(player.seat_id, player_gems, player.score,
                                player.reserved_cards, player.purchased_cards)
  IN GameState(_replace_tuple(s.players, player.seat_id, new_player), bank,
               s.visible_cards, s.turn, s.last_action)

Take2_apply(a, player, s) ==
  LET taken(g) == IF g = a.gem THEN a.count ELSE 0
      bank == [g \in Gem |-> s.bank[g] - taken(g) + RetAmount(a, g)]
      player_gems == [g \in Gem |-> player.gems[g] + taken(g) - RetAmount(a, g)]
      new_player == PlayerState(player.seat_id, player_gems, player.score,
                                player.reserved_cards, player.purchased_cards)
  IN GameState(_replace_tuple(s.players, player.seat_id, new_player), bank,
               s.visible_cards, s.turn, a)

(***************************************************************************)
(* BuyCardAction                                                           *)
(***************************************************************************)
Buy_check_without_state(a) ==
  IF a.idx_kind # "none" THEN a.idx_kind # "deck" ELSE a.card # 0

(* The list the idx points into. *)
BuySource(a, player, s) ==
  IF a.idx_kind = "visible" THEN s.visible_cards ELSE player.reserved_cards

(* The stateful Buy check without the comparison of the card ids. *)
Buy_check_ignores_card(a, player, s) ==
  /\ a.idx_kind \in {"visible", "reserve"}
  /\ PyIndexOK(BuySource(a, player, s), a.idx)
  /\ check_afford(player, PyAt(BuySource(a, player, s), a.idx), a.payment)

Buy_check_with_state(a, player, s) ==
  /\ a.idx_kind \in {"visible", "reserve"}
  /\ PyIndexOK(BuySource(a, player, s), a.idx)
  /\ LET c == PyAt(BuySource(a, player, s), a.idx)
     IN /\ a.card # 0 => c = a.card
        /\ check_afford(player, c, a.payment)

(* _apply raises although the checks passed. *)
Buy_apply_raises(a, player, s) ==
  \/ a.idx_kind \notin {"visible", "reserve"}
  \/ a.idx < 0
  \/ a.idx >= Len(BuySource(a, player, s))
  \/ (a.card # 0 /\ PyAt(BuySource(a, player, s), a.idx) # a.card)
  \/ \E g \in DOMAIN a.payment : player.gems[g] < a.payment[g]

(* BuyCardAction._apply that does not add the card's points to the score. *)
Buy_apply_no_points(a, player, s) ==
  LET src == BuySource(a, player, s)
      found == src[a.idx + 1]
      from_reserved == a.idx_kind = "reserve"
      bank == [g \in Gem |-> s.bank[g] + get(a.payment, g)]
      player_gems == [g \in Gem |-> player.gems[g] - get(a.payment, g)]
      new_reserved == IF from_reserved THEN RemoveAt(src, a.idx + 1)
                      ELSE player.reserved_cards
      visible == IF from_reserved THEN s.visible_cards ELSE RemoveAt(src, a.idx + 1)
      new_player == PlayerState(player.seat_id, player_gems,
                                player.score, new_reserved,
                                Append(player.purchased_cards, found))
  IN GameState(_replace_tuple(s.players, player.seat_id, new_player), bank,
               visible, s.turn, a)

Buy_apply(a, player, s) ==
  LET src == BuySource(a, player, s)
      found == src[a.idx + 1]
      from_reserved == a.idx_kind = "reserve"
      bank == [g \in Gem |-> s.bank[g] + get(a.payment, g)]
      player_gems == [g \in Gem |-> player.gems[g] - get(a.payment, g)]
      new_reserved == IF from_reserved THEN RemoveAt(src, a.idx + 1)
                      ELSE player.reserved_cards
      visible == IF from_reserved THEN s.visible_cards ELSE RemoveAt(src, a.idx + 1)
      new_player == PlayerState(player.seat_id, player_gems,
                                player.score + CardPoints(found), new_reserved,
                                Append(player.purchased_cards, found))
  IN GameState(_replace_tuple(s.players, player.seat_id, new_player), bank,
               visible, s.turn, a)

(***************************************************************************)
(* ReserveCardAction                                                       *)
(***************************************************************************)
Reserve_check_without_state(a) ==
  /\ ~(a.ret_gem # "none" /\ ~a.take_gold)
  /\ IF a.idx_kind # "none" THEN a.idx_kind \in {"visible", "deck"} ELSE a.card # 0

Reserve_check_with_state(a, player, s) ==
  /\ can_reserve(player)
  /\ a.idx_kind = "visible" =>
       /\ PyIndexOK(s.visible_cards, a.idx)
       /\ a.card # 0 => PyAt(s.visible_cards, a.idx) = a.card
  /\ (a.idx_kind = "none" /\ a.card # 0) => a.card \in SeqSet(s.visible_cards)
  /\ ~(a.take_gold /\ s.bank[GOLD] <= 0)
  /\ a.ret_gem # GOLD
  /\ a.ret_gem # "none" =>
       /\ player.gems[a.ret_gem] > 0
       /\ count(player.gems) = coin_max_count_per_player

Reserve_apply_raises(a, player, s) ==
  \/ a.idx_kind \in {"reserve", "deck"}
  \/ (a.idx_kind = "visible" /\ ~PyIndexOK(s.visible_cards, a.idx))
  \/ (a.idx_kind = "none" /\ a.card \notin SeqSet(s.visible_cards))

(* Position in the visible list of the card the action takes. *)
ReservePos(a, s) ==
  IF a.idx_kind = "visible" THEN PyPos(s.visible_cards, a.idx)
  ELSE CHOOSE j \in 1..Len(s.visible_cards) :
         /\ s.visible_cards[j] = a.card
         /\ \A k \in 1..(j - 1) : s.visible_cards[k] # a.card

Reserve_apply(a, player, s) ==
  LET pos == ReservePos(a, s)
      found == s.visible_cards[pos]
      give_gold == a.take_gold /\ s.bank[GOLD] > 0
      delta(g) == (IF give_gold /\ g = GOLD THEN 1 ELSE 0)
                  - (IF a.ret_gem = g THEN 1 ELSE 0)
      bank == [g \in Gem |-> s.bank[g] - delta(g)]
      player_gems == [g \in Gem |-> player.gems[g] + delta(g)]
      new_player == PlayerState(player.seat_id, player_gems, player.score,
                                Append(player.reserved_cards, found),
                                player.purchased_cards)
  IN GameState(_replace_tuple(s.players, player.seat_id, new_player), bank,
               RemoveAt(s.visible_cards, pos), s.turn, a)

(***************************************************************************)
(* NoopAction                                                              *)
(***************************************************************************)
(* A Noop that puts one gem of every colour into a bank that has run out  *)
(* of the standard colours.                                                *)
Noop_apply_restocks(a, player, s) ==
  GameState(s.players,
            IF \A g \in StdGems : s.bank[g] = 0
            THEN [g \in Gem |-> s.bank[g] + 1] ELSE s.bank,
            s.visible_cards, s.turn, a)

Noop_apply(a, player, s) ==
  GameState(s.players, s.bank, s.visible_cards, s.turn, a)

(***************************************************************************)
(* Action._check, Action.apply for the player whose turn it is.            *)
(***************************************************************************)
_check_without_state(a) ==
  CASE a.type = "take_3_different" -> Take3_check_without_state(a)
    [] a.type = "take_2_same" -> Take2_check_without_state(a)
    [] a.type = "buy_card" -> Buy_check_without_state(a)
    [] a.type = "reserve_card" -> Reserve_check_without_state(a)
    [] OTHER -> TRUE

_check_with_state(a, player, s) ==
  CASE a.type = "take_3_different" -> Take3_check_with_state(a, player, s)
    [] a.type = "take_2_same" -> Take2_check_with_state(a, player, s)
    [] a.type = "buy_card" -> Buy_check_with_state(a, player, s)
    [] a.type = "reserve_card" -> Reserve_check_with_state(a, player, s)
    [] OTHER -> TRUE

_check(a, player, s) == _check_without_state(a) /\ _check_with_state(a, player, s)

_apply(a, player, s) ==
  CASE a.type = "take_3_different" -> Take3_apply(a, player, s)
    [] a.type = "take_2_same" -> Take2_apply(a, player, s)
    [] a.type = "buy_card" -> Buy_apply(a, player, s)
    [] a.type = "reserve_card" -> Reserve_apply(a, player, s)
    [] OTHER -> Noop_apply(a, player, s)

_apply_raises(a, player, s) ==
  CASE a.type = "buy_card" -> Buy_apply_raises(a, player, s)
    [] a.type = "reserve_card" -> Reserve_apply_raises(a, player, s)
    [] OTHER -> FALSE

(* Action.apply without the validation that precedes _apply. *)
apply_raises_unchecked(a, s) ==
  LET player == s.players[Seat(s)]
  IN ~_check_without_state(a) \/ _apply_raises(a, player, s)

(* Action.apply raises: validation fails, or _apply raises. *)
apply_raises(a, s) ==
  LET player == s.players[Seat(s)]
  IN ~_check(a, player, s) \/ _apply_raises(a, player, s)

apply(a, s) == _apply(a, s.players[Seat(s)], s)


(***************************************************************************)
(* Enumeration of the legal actions of each variant (_get_legal_actions).  *)
(***************************************************************************)
GemsOf(S) == [g \in Gem |-> IF g \in S THEN 1 ELSE 0]
Combinations(S, k) == {T \in SUBSET S : Cardinality(T) = k}

(* The dict built from a tuple of returned gems: only the gems present. *)
RetMap(f) == [g \in {h \in DOMAIN f : f[h] > 0} |-> f[g]]

(* set(combinations(ret_available, n)) as dicts: the multisets of size n   *)
(* over the player's standard gems outside `excluded`, within holdings.    *)
(* Return multisets that may name the colours being taken. *)
ReturnCombos_any_colour(player, excluded, n) ==
  {RetMap(f) : f \in {h \in [StdGems -> 0..Max(n, 0)] :
                        /\ SumOver(h, StdGems) = n
                        /\ \A g \in StdGems : h[g] <= Max(player.gems[g], 0)}}

ReturnCombos(player, excluded, n) ==
  {RetMap(f) : f \in {h \in [StdGems -> 0..Max(n, 0)] :
                        /\ SumOver(h, StdGems) = n
                        /\ \A g \in StdGems : h[g] <= Max(player.gems[g], 0)
                        /\ \A g \in excluded : h[g] = 0}}

(* Every standard colour counted as available, whatever the bank holds. *)
Available_whole_palette(s) == StdGems

Available(s) == {g \in StdGems : s.bank[g] > 0}

(* combinations(available, take_num) raises for a negative take_num. *)
Take3_get_legal_raises(player, s) ==
  LET total == count(player.gems)
      max_take == Min(Cardinality(Available(s)), 3)
  IN /\ Available(s) # {}
     /\ total + max_take > coin_max_count_per_player
     /\ coin_max_count_per_player - total < 0

Take3_get_legal_actions(player, s) ==
  LET available == Available(s)
      total == count(player.gems)
      max_take == Min(Cardinality(available), 3)
      max_return == total + max_take - coin_max_count_per_player
  IN IF available = {} THEN {}
     ELSE IF total + max_take <= coin_max_count_per_player
     THEN {Take3Action(GemsOf(combo), FALSE, EmptyBag) :
             combo \in Combinations(available, max_take)}
     ELSE UNION {
            LET take_num == coin_max_count_per_player + return_num - total
            IN IF take_num = 0 THEN {}
               ELSE UNION {
                      {Take3Action(GemsOf(combo), TRUE, ret) :
                         ret \in ReturnCombos(player, combo, return_num)} :
                      combo \in Combinations(available, take_num)} :
            return_num \in 0..max_return}

(* The Take2 enumeration offering every colour the bank holds two of. *)
Take2_get_legal_any_pair(player, s) ==
  LET total == count(player.gems)
      need_return == Max(0, total + 2 - coin_max_count_per_player)
  IN UNION {
       IF need_return = 0 THEN {Take2Action(g, 2, FALSE, EmptyBag)}
       ELSE {Take2Action(g, 2, TRUE, ret) : ret \in ReturnCombos(player, {g}, need_return)} :
       g \in {h \in StdGems : s.bank[h] >= 2}}

Take2_get_legal_actions(player, s) ==
  LET total == count(player.gems)
      need_return == Max(0, total + 2 - coin_max_count_per_player)
  IN UNION {
       IF need_return = 0 THEN {Take2Action(g, 2, FALSE, EmptyBag)}
       ELSE {Take2Action(g, 2, TRUE, ret) : ret \in ReturnCombos(player, {g}, need_return)} :
       g \in {h \in StdGems : s.bank[h] >= coin_min_count_take2_in_deck}}

(* The Buy enumeration that also walks the other players' reserved piles. *)
Buy_get_legal_any_pile(player, s) ==
  UNION {{BuyCardAction("visible", i - 1, s.visible_cards[i], payment) :
            payment \in can_afford(player, s.visible_cards[i])} :
         i \in 1..Len(s.visible_cards)}
  \cup
  UNION {UNION {{BuyCardAction("reserve", i - 1, s.players[q].reserved_cards[i], payment) :
                   payment \in can_afford(player, s.players[q].reserved_cards[i])} :
                i \in 1..Len(s.players[q].reserved_cards)} :
         q \in DOMAIN s.players}

Buy_get_legal_actions(player, s) ==
  UNION {{BuyCardAction("visible", i - 1, s.visible_cards[i], payment) :
            payment \in can_afford(player, s.visible_cards[i])} :
         i \in 1..Len(s.visible_cards)}
  \cup
  UNION {{BuyCardAction("reserve", i - 1, player.reserved_cards[i], payment) :
            payment \in can_afford(player, player.reserved_cards[i])} :
         i \in 1..Len(player.reserved_cards)}

(* The Reserve enumeration that never asks for a returned gem. *)
Reserve_get_legal_no_return(player, s) ==
  IF ~can_reserve(player) THEN {}
  ELSE {ReserveCardAction("visible", i - 1, s.visible_cards[i], s.bank[GOLD] > 0, "none") :
          i \in 1..Len(s.visible_cards)}

Reserve_get_legal_actions(player, s) ==
  LET take_gold == s.bank[GOLD] > 0
      total == count(player.gems)
  IN IF ~can_reserve(player) THEN {}
     ELSE UNION {
            IF take_gold /\ total + 1 > coin_max_count_per_player
            THEN {ReserveCardAction("visible", i - 1, s.visible_cards[i], TRUE, g) :
                    g \in {h \in StdGems : player.gems[h] > 0}}
            ELSE {ReserveCardAction("visible", i - 1, s.visible_cards[i], take_gold, "none")} :
            i \in 1..Len(s.visible_cards)}

(* NoopAction._get_legal_actions: always the one Noop. *)
Noop_get_legal_actions(player, s) == {NoopAction}

(***************************************************************************)
(* Decks.  A deck is a list whose end is its top.                          *)
(***************************************************************************)
Reverse(seq) == [j \in 1..Len(seq) |-> seq[Len(seq) - j + 1]]

(* The cards popped by n pops (fewer when the deck runs dry), in pop order. *)
Drawn(deck, n) == [j \in 1..Max(0, Min(n, Len(deck))) |-> deck[Len(deck) - j + 1]]
Rest(deck, n) == SubSeq(deck, 1, Len(deck) - Max(0, Min(n, Len(deck))))

(* rng.shuffle of a deck by the generator seeded with `seed`: a            *)
(* permutation that the seed determines (here the rotation by seed).       *)
shuffle(deck, seed) ==
  IF deck = <<>> THEN deck
  ELSE [j \in 1..Len(deck) |-> deck[((j - 1 + seed) % Len(deck)) + 1]]

shuffle_assets(seed) == [lvl \in Levels |-> shuffle(CatalogueDeck(lvl), seed)]

LevelCount(visible, lvl) ==
  Cardinality({j \in 1..Len(visible) : CardLevel(visible[j]) = lvl})

(* A top-up that stops one card short of per_level. *)
Need_one_short(visible, lvl) == per_level - 1 - LevelCount(visible, lvl)

(* GameState.advance_turn with the engine's decks: turn + 1 and the grid   *)
(* topped up level by level, the drawn cards appended at the end.          *)
Need(visible, lvl) == per_level - LevelCount(visible, lvl)

RECURSIVE TopUp(_, _, _)
TopUp(visible, decks, lvls) ==
  IF lvls = {} THEN visible
  ELSE LET lvl == CHOOSE l \in lvls : \A m \in lvls : l <= m
       IN TopUp(visible \o Drawn(decks[lvl], Need(visible, lvl)), decks, lvls \ {lvl})

(* advance_turn that skips a turn number whenever the grid is refilled. *)
advance_turn_state_skips(s, decks) ==
  GameState(s.players, s.bank, TopUp(s.visible_cards, decks, Levels),
            IF TopUp(s.visible_cards, decks, Levels) = s.visible_cards
            THEN s.turn + 1 ELSE s.turn + 2,
            s.last_action)

advance_turn_state(s, decks) ==
  GameState(s.players, s.bank, TopUp(s.visible_cards, decks, Levels),
            s.turn + 1, s.last_action)

(* advance_turn that reads the top cards without popping them. *)
advance_turn_decks_peek(s, decks) == decks

advance_turn_decks(s, decks) ==
  [lvl \in Levels |-> Rest(decks[lvl], Need(s.visible_cards, lvl))]

(***************************************************************************)
(* Engine.create_game and Engine.new                                       *)
(***************************************************************************)
create_game(n) ==
  GameState([i \in 0..(n - 1) |-> PlayerState(i, ZeroGems, 0, <<>>, <<>>)],
            [g \in Gem |-> IF g = GOLD THEN coin_gold_init ELSE coin_init(n)],
            <<>>, 0, BaseAction)

DeckOf(decks, lvl) == IF lvl \in DOMAIN decks THEN decks[lvl] ELSE <<>>

RECURSIVE InitialVisible(_, _)
InitialVisible(decks, k) ==
  IF k = 0 THEN <<>>
  ELSE InitialVisible(decks, k - 1)
       \o Reverse(Drawn(DeckOf(decks, card_levels[k]), card_visible_count))

(* The roles of the asset file; Engine.new pops num_players + 1 of them    *)
(* (fewer when the deck is shorter) off the shuffled roles deck.           *)
RolesCatalogue == <<1, 2, 3>>

new_roles(n, seed) == Drawn(shuffle(RolesCatalogue, seed), n + 1)

new_state(n, seed) ==
  LET g == create_game(n)
  IN [GameState(g.players, g.bank,
                InitialVisible(shuffle_assets(seed), Len(card_levels)), g.turn, BaseAction)
        EXCEPT !.visible_roles = new_roles(n, seed)]

new_decks(seed) ==
  [lvl \in Levels |-> Rest(shuffle_assets(seed)[lvl], card_visible_count)]


(***************************************************************************)
(* An engine value: its GameState, its decks and its action history.       *)
(***************************************************************************)
EngineNew(n, sd) ==
  [state |-> new_state(n, sd), decks |-> new_decks(sd), history |-> <<>>]

(* A loop body that does not record a Noop. *)
replay_one_unrecorded_noop(e, a) ==
  [state |-> advance_turn_state(apply(a, e.state), e.decks),
   decks |-> advance_turn_decks(apply(a, e.state), e.decks),
   history |-> IF a.type = "noop" THEN e.history ELSE Append(e.history, a)]

(* One iteration of Engine.replay: apply, advance_turn, record. *)
replay_one(e, a) ==
  [state |-> advance_turn_state(apply(a, e.state), e.decks),
   decks |-> advance_turn_decks(apply(a, e.state), e.decks),
   history |-> Append(e.history, a)]

(* The loop of Engine.replay; each iteration works on the engine value     *)
(* the previous one left.                                                  *)
RECURSIVE replay(_, _)
replay(e, actions) ==
  IF actions = <<>> THEN e
  ELSE CHOOSE r \in {replay(x, Tail(actions)) : x \in {replay_one(e, Head(actions))}} : TRUE

RECURSIVE replay_raises(_, _)
replay_raises(e, actions) ==
  IF actions = <<>> THEN FALSE
  ELSE \/ apply_raises(Head(actions), e.state)
       \/ \E x \in {replay_one(e, Head(actions))} : replay_raises(x, Tail(actions))

(***************************************************************************)
(* Serialization.  The dict of an action is a record; `ret` of a Take is   *)
(* written as None (has_ret FALSE) when the action's ret is None or empty, *)
(* and read back as None when the stored list is None or empty.            *)
(***************************************************************************)
Take_to_dict(a) ==
  [a EXCEPT !.has_ret = Truthy(a.has_ret, a.ret),
            !.ret = IF Truthy(a.has_ret, a.ret) THEN a.ret ELSE EmptyBag]

Take_from_dict(d) ==
  [d EXCEPT !.has_ret = Truthy(d.has_ret, d.ret),
            !.ret = IF Truthy(d.has_ret, d.ret) THEN d.ret ELSE EmptyBag]

(* BuyCardActionGold: a Buy that names the colours its Gold stands for    *)
(* instead of a payment.                                                   *)
BuyCardActionGold(kind, i, card, gold_payment) ==
  [f \in DOMAIN BaseAction \cup {"gold_payment"} |->
     IF f = "gold_payment" THEN gold_payment
     ELSE BuyCardAction(kind, i, card, EmptyBag)[f]]

(* The 'idx' entry of a dict: None (the empty sequence) or the three       *)
(* optional indices, each None or a one-element sequence.                  *)
Idx_to_dict(a) ==
  IF a.idx_kind = "none" THEN <<>>
  ELSE <<[visible_idx |-> IF a.idx_kind = "visible" THEN <<a.idx>> ELSE <<>>,
          reserve_idx |-> IF a.idx_kind = "reserve" THEN <<a.idx>> ELSE <<>>,
          deck_head_level |-> IF a.idx_kind = "deck" THEN <<a.idx>> ELSE <<>>]>>

IdxKind_from_dict(idx_raw) ==
  IF idx_raw = <<>> THEN "none"
  ELSE IF idx_raw[1].visible_idx # <<>> THEN "visible"
  ELSE IF idx_raw[1].reserve_idx # <<>> THEN "reserve"
  ELSE "deck"

Idx_from_dict(idx_raw) ==
  IF idx_raw = <<>> THEN 0
  ELSE IF idx_raw[1].visible_idx # <<>> THEN idx_raw[1].visible_idx[1]
  ELSE IF idx_raw[1].reserve_idx # <<>> THEN idx_raw[1].reserve_idx[1]
  ELSE idx_raw[1].deck_head_level[1]

Buy_to_dict(a) ==
  [type |-> a.type, card |-> a.card, payment |-> a.payment, idx |-> Idx_to_dict(a)]

BuyGold_to_dict(a) ==
  [type |-> a.type, card |-> a.card, gold_payment |-> a.gold_payment,
   idx |-> Idx_to_dict(a)]

Buy_from_dict(d) ==
  BuyCardAction(IdxKind_from_dict(d.idx), Idx_from_dict(d.idx), d.card,
                IF "payment" \in DOMAIN d THEN d.payment ELSE EmptyBag)

Reserve_to_dict(a) ==
  [type |-> a.type, card |-> a.card, take_gold |-> a.take_gold, ret |-> a.ret_gem,
   idx |-> Idx_to_dict(a)]

Reserve_from_dict(d) ==
  ReserveCardAction(IdxKind_from_dict(d.idx), Idx_from_dict(d.idx), d.card,
                    d.take_gold, d.ret)

to_dict(a) ==
  CASE a.type \in {"take_3_different", "take_2_same"} -> Take_to_dict(a)
    [] a.type = "buy_card" ->
         IF "gold_payment" \in DOMAIN a THEN BuyGold_to_dict(a) ELSE Buy_to_dict(a)
    [] a.type = "reserve_card" -> Reserve_to_dict(a)
    [] OTHER -> [type |-> a.type]

Action_deserialize(d) ==
  CASE d.type \in {"take_3_different", "take_2_same"} -> Take_from_dict(d)
    [] d.type = "buy_card" -> Buy_from_dict(d)
    [] d.type = "reserve_card" -> Reserve_from_dict(d)
    [] OTHER -> NoopAction

(* Engine.serialize: the players, the seed and the serialized history. *)
serialize(e, n, sd) ==
  [num_players |-> n, seed |-> sd,
   action_history |-> [j \in 1..Len(e.history) |-> to_dict(e.history[j])]]

(* Engine.deserialize followed by replay() of the buffered actions. *)
deserialize_actions(d) ==
  [j \in 1..Len(d.action_history) |-> Action_deserialize(d.action_history[j])]

deserialize_replay(d) ==
  replay(EngineNew(d.num_players, d.seed), deserialize_actions(d))

(***************************************************************************)
(* The engine under test: its GameState, its decks, the action history,    *)
(* the seed it was constructed with, whether the last call raised, and     *)
(* the number of calls the driver has made since construction.             *)
(***************************************************************************)
VARIABLES state, decks_by_level, action_history, seed, err, steps,
          all_noops_last_round

vars == <<state, decks_by_level, action_history, seed, err, steps,
          all_noops_last_round>>

Seeds == {0, 1}

(***************************************************************************)
(* Recorded games an engine is rebuilt from (Engine.deserialize followed   *)
(* by replay): none, a solo game of three Take3 that leaves the player     *)
(* one token under the hand cap, and a two-player game of four Reserves    *)
(* that leaves one Gold in the bank and each pile one short of its cap.    *)
(***************************************************************************)
TakeAll == Take3Action(GemsOf(StdGems), FALSE, EmptyBag)
ReserveFirst == ReserveCardAction("visible", 0, 0, TRUE, "none")

Recorded ==
  {<<n, <<>>>> : n \in {1, 2}}
  \cup {<<1, <<TakeAll, TakeAll, TakeAll>>>>}
  \cup {<<2, <<ReserveFirst, ReserveFirst, ReserveFirst, ReserveFirst>>>>}

Init ==
  \E r \in Recorded, sd \in Seeds :
    /\ ~replay_raises(EngineNew(r[1], sd), r[2])
    /\ state = replay(EngineNew(r[1], sd), r[2]).state
    /\ decks_by_level = replay(EngineNew(r[1], sd), r[2]).decks
    /\ action_history = replay(EngineNew(r[1], sd), r[2]).history
    /\ seed = sd
    /\ err = FALSE
    /\ steps = 0
    /\ all_noops_last_round = FALSE

(***************************************************************************)
(* Action values a driver may submit besides the enumerated ones.          *)
(* Accepted: values that can pass the checks without being enumerated (a  *)
(* Take3 of fewer gems with an empty returns dict, a Reserve without the   *)
(* cross-check card, with a negative index, declining the Gold, or naming  *)
(* the card instead of the slot, a Buy without the cross-check card, a     *)
(* Take with returns that the cap does not ask for, a Take whose returns   *)
(* dict holds a negative amount).                                          *)
(* Rejected: values that the checks or _apply refuse.                      *)
(***************************************************************************)
WrongCard(c) == IF c = 1 THEN 2 ELSE 1

AcceptedProbes(player, s) ==
  {Take3Action(GemsOf({"red"}), TRUE, EmptyBag),
   Take3Action(GemsOf({"red"}), TRUE, [g \in {GOLD} |-> 1]),
   Take2Action("red", 2, TRUE, [g \in {"blue"} |-> 1]),
   Take3Action(GemsOf({"red"}), TRUE, [g \in {"blue"} |-> 0 - 8]),
   Take3Action(GemsOf({"red"}), TRUE, [g \in {GOLD} |-> 0 - 1]),
   ReserveCardAction("visible", 0, 0, TRUE, "none"),
   ReserveCardAction("visible", -1, 0, FALSE, "none")}
  \cup (IF s.visible_cards = <<>> THEN {}
        ELSE {ReserveCardAction("none", 0, s.visible_cards[1], FALSE, "none")}
             \cup {BuyCardAction("visible", 0, 0, pay) :
                     pay \in can_afford(player, s.visible_cards[1])})

RejectedProbes(player, s) ==
  {Take3Action(GemsOf({"red", GOLD}), FALSE, EmptyBag),
   Take3Action([g \in Gem |-> IF g = "red" THEN 2 ELSE 0], FALSE, EmptyBag),
   Take3Action(GemsOf(Gem), FALSE, EmptyBag),
   Take3Action(GemsOf({"red"}), TRUE, [g \in {"red"} |-> 1]),
   Take2Action(GOLD, 2, FALSE, EmptyBag),
   Take2Action("red", 3, FALSE, EmptyBag),
   Take2Action("red", 2, TRUE, [g \in {"red"} |-> 1]),
   BuyCardAction("deck", 1, 0, EmptyBag),
   BuyCardAction("none", 0, 1, EmptyBag),
   BuyCardAction("visible", Len(s.visible_cards), 0, EmptyBag),
   BuyCardAction("visible", 0, 0, [g \in {"red", "blue"} |-> IF g = "red" THEN 1 ELSE 0]),
   ReserveCardAction("deck", 1, 0, FALSE, "none"),
   ReserveCardAction("reserve", 0, 0, FALSE, "none"),
   ReserveCardAction("visible", Len(s.visible_cards), 0, FALSE, "none"),
   ReserveCardAction("visible", 0, 0, TRUE, GOLD),
   ReserveCardAction("visible", 0, 0, FALSE, "red"),
   ReserveCardAction("visible", 0, 0, TRUE, "red")}
  \cup (IF s.visible_cards = <<>> THEN {}
        ELSE {BuyCardAction("visible", -1, 0, pay) :
                pay \in can_afford(player, PyAt(s.visible_cards, -1))}
             \cup {BuyCardAction("visible", 0, WrongCard(s.visible_cards[1]), pay) :
                     pay \in can_afford(player, s.visible_cards[1])}
             \cup {ReserveCardAction("visible", 0, WrongCard(s.visible_cards[1]), FALSE, "none"),
                   ReserveCardAction("none", 0, WrongCard(s.visible_cards[1]), FALSE, "none")})

Probes(s) ==
  AcceptedProbes(s.players[Seat(s)], s) \cup RejectedProbes(s.players[Seat(s)], s)

(* The actions the variants enumerate for the seat whose turn it is; a     *)
(* variant whose enumeration raises offers nothing.                        *)
Enumerated(player, s) ==
  (IF Take3_get_legal_raises(player, s) THEN {} ELSE Take3_get_legal_actions(player, s))
  \cup Take2_get_legal_actions(player, s)
  \cup Buy_get_legal_actions(player, s)
  \cup Reserve_get_legal_actions(player, s)
  \cup Noop_get_legal_actions(player, s)

Offered(s) == Enumerated(s.players[Seat(s)], s)

Inputs(s) == Offered(s) \cup Probes(s)

(***************************************************************************)
(* One step of Engine.replay: apply the action for the seat whose turn it  *)
(* is, advance the turn (refilling the grid from the decks), record the    *)
(* action.  When apply raises, the error reaches the caller and nothing    *)
(* has been assigned.                                                      *)
(***************************************************************************)
Step(a) ==
  /\ steps' = steps + 1
  /\ UNCHANGED <<seed, all_noops_last_round>>
  /\ IF apply_raises(a, state)
     THEN /\ err' = TRUE
          /\ UNCHANGED <<state, decks_by_level, action_history>>
     ELSE LET e == replay_one([state |-> state, decks |-> decks_by_level,
                               history |-> action_history], a)
          IN /\ state' = e.state
             /\ decks_by_level' = e.decks
             /\ action_history' = e.history
             /\ err' = FALSE

(* An agent's choice among the actions enumerated for the acting seat. *)
StepOffered == steps < MaxSteps /\ \E a \in Offered(state) : Step(a)

(* An action built by the caller (a replayed or hand-written action). *)
StepSubmitted == steps < MaxSteps /\ \E a \in Probes(state) : Step(a)

Next == StepOffered \/ StepSubmitted

Spec == Init /\ [][Next]_vars

(***************************************************************************)
(* Properties                                                              *)
(***************************************************************************)
HeldBy(s, g) ==
  SumOver([i \in DOMAIN s.players |-> s.players[i].gems[g]], DOMAIN s.players)
InitialBank(s, g) == create_game(NumPlayers(s)).bank[g]

Conserved(s) == \A g \in Gem : s.bank[g] + HeldBy(s, g) = InitialBank(s, g)
WithinHandCap(s) ==
  \A i \in DOMAIN s.players : count(s.players[i].gems) <= coin_max_count_per_player
WithinReserveCap(s) ==
  \A i \in DOMAIN s.players :
    Len(s.players[i].reserved_cards) <= card_max_count_reserved
WithinGrid(s) ==
  \A lvl \in Levels : LevelCount(s.visible_cards, lvl) <= card_visible_count

Engine == [state |-> state, decks |-> decks_by_level, history |-> action_history]
Acting == state.players[Seat(state)]

(* C1: in every state reached by successful steps from a constructed       *)
(* engine, for every colour the bank's count plus the players' held counts *)
(* equals the colour's initial bank count, and so the grand total equals   *)
(* (number of standard colours) * coin_init + coin_gold_init.              *)
C1_TokenConservation ==
  /\ Conserved(state)
  /\ SumOver([g \in Gem |-> state.bank[g] + HeldBy(state, g)], Gem)
       = Cardinality(StdGems) * coin_init(NumPlayers(state)) + coin_gold_init

(* A Take3 with returns has moved tokens both ways, and Gold is in a hand. *)
C1_Witness ==
  /\ steps > 0
  /\ state.last_action.type = "take_3_different"
  /\ RetCount(state.last_action) > 0
  /\ HeldBy(state, GOLD) + HeldBy(state, "red") > 0

(* C2: after every successful step every player's total token count, Gold  *)
(* included, is at most coin_max_count_per_player.                         *)
C2_HandCap == WithinHandCap(state)

(* C3: in every reachable state, for the acting seat, no variant's         *)
(* enumeration of legal actions raises, every enumerated action passes     *)
(* the stateless and the stateful check, applying it raises nothing, and   *)
(* the state after the step satisfies token conservation, the hand cap,    *)
(* the reserve cap and the per-level grid bound.                           *)
C3_LegalActionsSound ==
  /\ ~Take3_get_legal_raises(Acting, state)
  /\ \A a \in Enumerated(Acting, state) :
       /\ _check_without_state(a)
       /\ _check_with_state(a, Acting, state)
       /\ ~apply_raises(a, state)
       /\ LET after == replay_one(Engine, a).state
          IN /\ Conserved(after)
             /\ WithinHandCap(after)
             /\ WithinReserveCap(after)
             /\ WithinGrid(after)

(* C4: an engine built with the same players and seed and fed the same     *)
(* actions has the same GameState and the same decks as this engine, and   *)
(* Engine.deserialize(engine.serialize()) followed by replay() yields a    *)
(* GameState and an action history equal to this engine's.                 *)
C4_ReplayDeterminism ==
  /\ replay(EngineNew(NumPlayers(state), seed), action_history).state = state
  /\ replay(EngineNew(NumPlayers(state), seed), action_history).decks = decks_by_level
  /\ LET d == serialize(Engine, NumPlayers(state), seed)
     IN /\ ~replay_raises(EngineNew(d.num_players, d.seed), deserialize_actions(d))
        /\ deserialize_replay(d).state = state
        /\ deserialize_replay(d).history = action_history

(* The part of C4 about two engines fed the same action objects. *)
SameInputsSameEngine ==
  replay(EngineNew(NumPlayers(state), seed), action_history) = Engine

(* The part of C4 about the round trip, up to last_action and the history. *)
RoundTripUpToActions ==
  LET e == deserialize_replay(serialize(Engine, NumPlayers(state), seed))
  IN /\ [e.state EXCEPT !.last_action = BaseAction]
          = [state EXCEPT !.last_action = BaseAction]
     /\ e.decks = decks_by_level
     /\ Len(e.history) = Len(action_history)

(* C5: a call whose action fails the stateless or the stateful check for   *)
(* the acting seat raises, and a call that raises leaves the GameState,    *)
(* the decks and the action history as they were: a call that does not     *)
(* raise has applied and recorded an action that passed both checks.       *)
C5_InvalidActionRaises ==
  [][/\ err' => UNCHANGED <<state, decks_by_level, action_history>>
     /\ ~err' => /\ _check(state'.last_action, Acting, state)
                 /\ action_history' = Append(action_history, state'.last_action)]_vars

(* A call has raised on an engine that had already taken a step. *)
C5_Witness == err /\ steps = MaxSteps /\ Len(action_history) > 0 /\ state.turn > 0

C7_TurnRoundRobin ==
  [][/\ action_history' # action_history => state'.turn = state.turn + 1
     /\ \/ state' = state
        \/ /\ state'.turn = state.turn + 1
           /\ Seat(state') = (Seat(state) + 1) % NumPlayers(state)
           /\ \A i \in DOMAIN state.players :
                i # Seat(state) => state'.players[i] = state.players[i]]_vars

(* Both seats of a two-player game have acted, one after the other. *)
C7_Witness ==
  /\ NumPlayers(state) = 2
  /\ state.turn = 2
  /\ \A i \in DOMAIN state.players : count(state.players[i].gems) > 0

AllReserves ==
  {ReserveCardAction(kind, i, c, tg, rg) :
     kind \in {"visible", "deck", "none"}, i \in -1..1, c \in {0} \cup Cards,
     tg \in BOOLEAN, rg \in {"none"} \cup Gem}

(* C9: every player's reserved pile holds at most card_max_count_reserved  *)
(* cards; for an acting player who holds that many, every Reserve fails    *)
(* validation and none is enumerated.                                      *)
C9_ReserveCap ==
  /\ WithinReserveCap(state)
  /\ Len(Acting.reserved_cards) >= card_max_count_reserved =>
       /\ Reserve_get_legal_actions(Acting, state) = {}
       /\ \A a \in AllReserves : ~_check(a, Acting, state)

(* The acting player holds three reserved cards and a card is on show. *)
C9_Witness ==
  /\ steps > 0
  /\ Len(Acting.reserved_cards) = card_max_count_reserved
  /\ state.visible_cards # <<>>
  /\ state.bank[GOLD] > 0

PointsOf(purchased) ==
  SumOver([j \in 1..Len(purchased) |-> CardPoints(purchased[j])], 1..Len(purchased))

(* C10: a player's score always equals the sum of the points of the cards  *)
(* in the player's purchased list, and no step decreases any score.        *)
C10_ScoreMonotone ==
  /\ [](\A i \in DOMAIN state.players :
          state.players[i].score = PointsOf(state.players[i].purchased_cards))
  /\ [][\A i \in DOMAIN state.players :
          state'.players[i].score >= state.players[i].score]_vars

(* A player has bought two cards and scored. *)
C10_Witness ==
  \E i \in DOMAIN state.players :
    /\ Len(state.players[i].purchased_cards) >= 2
    /\ state.players[i].score > 0


RECURSIVE BonusCount(_, _)
BonusCount(purchased, g) ==
  IF purchased = <<>> THEN 0
  ELSE (IF CardBonus(Head(purchased)) = g THEN 1 ELSE 0)
       + BonusCount(Tail(purchased), g)

(* C11: in every state each player's discounts hold, per colour, the       *)
(* number of purchased cards with that bonus colour (a card without a      *)
(* bonus counts nowhere), and a player's discounts change only in a step   *)
(* in which that player buys a card.                                       *)
C11_DiscountsFromPurchased ==
  /\ [](\A i \in DOMAIN state.players : \A g \in Gem :
          state.players[i].discounts[g]
            = BonusCount(state.players[i].purchased_cards, g))
  /\ [][\A i \in DOMAIN state.players :
          state'.players[i].discounts # state.players[i].discounts =>
            /\ i = Seat(state)
            /\ state'.last_action.type = "buy_card"
            /\ Len(state'.players[i].purchased_cards)
                 = Len(state.players[i].purchased_cards) + 1]_vars

(* A player owns a card with a bonus and a card without one. *)
C11_Witness ==
  \E i \in DOMAIN state.players :
    /\ \E j \in 1..Len(state.players[i].purchased_cards) :
         CardBonus(state.players[i].purchased_cards[j]) = "none"
    /\ \E g \in Gem : state.players[i].discounts[g] > 0


(***************************************************************************)
(* Affordability as a function of the hand, the purchased cards and the    *)
(* card: an engine built around a hand-made solo state (the constructors   *)
(* take the hand and the purchased cards directly), to which one Buy of a  *)
(* visible card with an arbitrary payment bag is submitted.                *)
(***************************************************************************)
MaxHeld == 2

PurchasedChoices == {<<>>, <<2>>, <<1>>, <<3>>, <<1, 4>>}

NormBag(f) == [g \in {h \in DOMAIN f : f[h] > 0} |-> f[g]]

PaymentBags == {NormBag(f) : f \in [Gem -> 0..(MaxHeld + 1)]}

RECURSIVE TotalPoints(_)
TotalPoints(cards) ==
  IF cards = <<>> THEN 0 ELSE CardPoints(Head(cards)) + TotalPoints(Tail(cards))

HandMadeEngine(held, purchased, sd) ==
  LET left == [lvl \in Levels |->
                 SelectSeq(shuffle_assets(sd)[lvl],
                           LAMBDA c : c \notin SeqSet(purchased))]
      g == create_game(1)
  IN [state |-> GameState(
                  [i \in {0} |-> PlayerState(i, held, TotalPoints(purchased), <<>>, purchased)],
                  [c \in Gem |-> g.bank[c] - held[c]],
                  InitialVisible(left, Len(card_levels)), 0, BaseAction),
      decks |-> [lvl \in Levels |-> Rest(left[lvl], card_visible_count)],
      history |-> <<>>]

InitAfford ==
  \E held \in [Gem -> 0..MaxHeld], purchased \in PurchasedChoices :
    /\ state = HandMadeEngine(held, purchased, 0).state
    /\ decks_by_level = HandMadeEngine(held, purchased, 0).decks
    /\ action_history = <<>>
    /\ seed = 0
    /\ err = FALSE
    /\ steps = 0
    /\ all_noops_last_round = FALSE

(* The payments a caller tries: each affordable one, and each of them with *)
(* one token more or one token less in one colour.                         *)
SubmittedPayments(player, card) ==
  can_afford(player, card)
  \cup {NormBag([g \in Gem |-> get(p, g) + (IF g = h THEN 1 ELSE 0)]) :
          p \in can_afford(player, card), h \in Gem}
  \cup {NormBag([g \in Gem |-> Max(0, get(p, g) - (IF g = h THEN 1 ELSE 0))]) :
          p \in can_afford(player, card), h \in Gem}

BuySubmitted ==
  /\ steps = 0
  /\ \E j \in 1..Len(state.visible_cards) :
       \E p \in SubmittedPayments(state.players[0], state.visible_cards[j]) :
         Step(BuyCardAction("visible", j - 1, 0, p))

NextAfford == BuySubmitted

SpecAfford == InitAfford /\ [][NextAfford]_vars

EffCost(player, card, c) == Max(0, get(CardCost(card), c) - player.discounts[c])

ExactPayment(p, player, card) ==
  /\ \A c \in Gem \ {GOLD} :
       get(p, c) <= Min(player.gems[c], EffCost(player, card, c))
  /\ get(p, GOLD)
       = SumOver([c \in Gem \ {GOLD} |-> EffCost(player, card, c) - get(p, c)],
                 Gem \ {GOLD})
  /\ get(p, GOLD) <= player.gems[GOLD]

(* C12: for every hand, discounts and card, a payment bag is among the     *)
(* affordable payments exactly when it pays per colour at most             *)
(* min(held, effective cost), pays in Gold exactly the remaining deficit   *)
(* and no more Gold than held; the enumeration yields each payment once;   *)
(* and it is the single empty payment when the effective cost is zero      *)
(* everywhere.  A Buy that is accepted has paid such a payment.            *)
C12_AffordablePayments ==
  /\ [](\A card \in Cards :
          LET player == state.players[0]
          IN /\ \A p \in can_afford(player, card) :
                  p \in PaymentBags /\ ExactPayment(p, player, card)
             /\ steps = 0 =>
                  \A p \in PaymentBags :
                    ExactPayment(p, player, card) => p \in can_afford(player, card)
             /\ Cardinality(SpendCombos(player, card))
                  = Cardinality(can_afford(player, card))
             /\ (\A c \in Gem \ {GOLD} : EffCost(player, card, c) = 0)
                  => can_afford(player, card) = {EmptyBag})
  /\ [][(steps' = steps + 1 /\ ~err') =>
          \E j \in 1..Len(state.visible_cards) :
            /\ state'.last_action.idx = j - 1
            /\ ExactPayment(state'.last_action.payment, state.players[0],
                            state.visible_cards[j])]_vars

(* A card discounted by an owned bonus was bought with coloured tokens and *)
(* Gold together, where paying without Gold was possible as well.          *)
C12_Witness ==
  /\ steps = 1
  /\ ~err
  /\ state.last_action.type = "buy_card"
  /\ get(state.last_action.payment, GOLD) > 0
  /\ \E c \in Gem \ {GOLD} : get(state.last_action.payment, c) > 0
  /\ state.players[0].purchased_cards = <<1, 6>>


(***************************************************************************)
(* Termination.  Engine.game_end reads the engine's flag                   *)
(* _all_noops_last_round and the scores; the flag is written by            *)
(* play_one_round alone.                                                   *)
(***************************************************************************)
WinningScore == 15

game_winners(s) == {i \in DOMAIN s.players : s.players[i].score >= WinningScore}

game_end(s, flag) == IF flag THEN TRUE ELSE game_winners(s) # {}

(* The enumeration offered to a seat: the variants' enumerations           *)
(* concatenated, and a single Noop when the concatenation is empty.        *)
get_legal_raises(player, s) == Take3_get_legal_raises(player, s)

get_legal_actions(player, s) ==
  LET actions == Take3_get_legal_actions(player, s)
                 \cup Take2_get_legal_actions(player, s)
                 \cup Buy_get_legal_actions(player, s)
                 \cup Reserve_get_legal_actions(player, s)
  IN IF actions = {} THEN {NoopAction} ELSE actions

(* play_one_round from seat `seat` on: every way the agents may choose,    *)
(* each with the engine it leaves, whether every list offered so far held  *)
(* only Noop, and whether an exception ended the round early.              *)
RECURSIVE RoundOutcomes(_, _, _, _)
RoundOutcomes(e, seat, n, all_noops) ==
  IF seat = n
  THEN {[e |-> e, all_noops |-> all_noops, raised |-> FALSE]}
  ELSE IF get_legal_raises(e.state.players[seat], e.state)
  THEN {[e |-> e, all_noops |-> all_noops, raised |-> TRUE]}
  ELSE LET actions == get_legal_actions(e.state.players[seat], e.state)
           still == all_noops /\ \A b \in actions : b.type = "noop"
       IN UNION {IF apply_raises(a, e.state)
                 THEN {[e |-> e, all_noops |-> still, raised |-> TRUE]}
                 ELSE RoundOutcomes(replay_one(e, a), seat + 1, n, still) :
                 a \in actions}

(* The flag is assigned from the round just played, set or not. *)
RoundFlag_assigned(flag, o) == ~o.raised /\ o.all_noops

RoundFlag(flag, o) == IF ~o.raised /\ o.all_noops THEN TRUE ELSE flag

PlayOneRound ==
  /\ steps = 0 \/ steps + NumPlayers(state) <= MaxSteps
  /\ \E o \in RoundOutcomes([state |-> state, decks |-> decks_by_level,
                             history |-> action_history],
                            0, NumPlayers(state), TRUE) :
       /\ state' = o.e.state
       /\ decks_by_level' = o.e.decks
       /\ action_history' = o.e.history
       /\ err' = o.raised
       /\ all_noops_last_round' = RoundFlag(all_noops_last_round, o)
       /\ steps' = steps + NumPlayers(state)
       /\ UNCHANGED seed

(* Engines set up by hand as the tests do: a fresh engine whose state is   *)
(* replaced by one with an empty bank and an empty grid (the decks kept or *)
(* emptied), and a fresh engine whose first player is one point short of   *)
(* the winning score.                                                      *)
StuckEngine(n, sd, dry) ==
  [state |-> GameState(create_game(n).players, ZeroGems, <<>>, 0, BaseAction),
   decks |-> IF dry THEN [lvl \in Levels |-> <<>>] ELSE new_decks(sd),
   history |-> <<>>]

NearWinEngine(n, sd) ==
  LET e == EngineNew(n, sd)
  IN [e EXCEPT !.state.players[0].score = WinningScore - 1]

InitRound ==
  \E n \in {1, 2}, sd \in Seeds :
  \E e \in {StuckEngine(n, sd, TRUE), StuckEngine(n, sd, FALSE), NearWinEngine(n, sd)} :
    /\ state = e.state
    /\ decks_by_level = e.decks
    /\ action_history = e.history
    /\ seed = sd
    /\ err = FALSE
    /\ steps = 0
    /\ all_noops_last_round = FALSE

NextRound == PlayOneRound \/ StepOffered \/ StepSubmitted

SpecRound == InitRound /\ [][NextRound]_vars

LastRound ==
  LET n == NumPlayers(state)
      k == Len(action_history) \div n
  IN SubSeq(action_history, (k - 1) * n + 1, k * n)

(* C13: once a round has been completed, game_end() is true exactly when   *)
(* every action of the most recently completed round was a Noop or some    *)
(* player has a score of at least 15.                                      *)
C13_GameEndIff ==
  Len(action_history) >= NumPlayers(state) =>
    (game_end(state, all_noops_last_round)
       <=> \/ \A j \in 1..Len(LastRound) : LastRound[j].type = "noop"
           \/ \E i \in DOMAIN state.players : state.players[i].score >= 15)

(* C14: a step or a round never takes an engine whose game_end() is true   *)
(* to one whose game_end() is false.                                       *)
C14_EndedIsTerminal ==
  [][game_end(state, all_noops_last_round)
       => game_end(state', all_noops_last_round')]_vars

(* After the game ended a card was reserved or bought. *)
C14_Witness ==
  /\ game_end(state, all_noops_last_round)
  /\ steps = MaxSteps
  /\ state.last_action.type \in {"reserve_card", "buy_card"}
  /\ \/ all_noops_last_round
     \/ /\ state.players[0].score >= WinningScore
        /\ Seat(state) = 0
        /\ NumPlayers(state) = 2


(* C15: in every state the Noop passes validation for the acting player    *)
(* and applying it gives the same state (players, bank, visible cards,     *)
(* visible roles, turn) with last_action replaced by the Noop; a step that *)
(* took a Noop                                                             *)
(* changed nothing but last_action, the turn and what advance_turn drew.   *)
C15_NoopFrame ==
  /\ [](/\ _check(NoopAction, Acting, state)
        /\ ~apply_raises(NoopAction, state)
        /\ apply(NoopAction, state) = [state EXCEPT !.last_action = NoopAction])
  /\ [][(steps' = steps + 1 /\ ~err' /\ state'.last_action = NoopAction) =>
          /\ state'.players = state.players
          /\ state'.bank = state.bank
          /\ state' = advance_turn_state([state EXCEPT !.last_action = NoopAction],
                                         decks_by_level)]_vars

NonNoopEnumerated(player, s) ==
  Take3_get_legal_actions(player, s) \cup Take2_get_legal_actions(player, s)
  \cup Buy_get_legal_actions(player, s) \cup Reserve_get_legal_actions(player, s)

ConstructibleActions(s) ==
  Inputs(s)
  \cup {BuyCardActionGold("visible", j - 1, s.visible_cards[j], gp) :
          j \in 1..Len(s.visible_cards), gp \in {EmptyBag, [g \in {"red"} |-> 1]}}
  \cup {BuyCardAction("none", 0, s.visible_cards[j], EmptyBag) :
          j \in 1..Len(s.visible_cards)}
  \cup {ReserveCardAction("none", 0, s.visible_cards[j], FALSE, "none") :
          j \in 1..Len(s.visible_cards)}

(* C17: every constructible action is given back unchanged, in its type    *)
(* and in all of its fields, by deserialize(serialize(.)).                 *)
C17_ActionRoundTrip ==
  \A a \in ConstructibleActions(state) : Action_deserialize(to_dict(a)) = a


(* C18: after every successful step every per-colour count of the bank and *)
(* of every player's hand is at least zero.                                *)
C18_NonNegativeCounts ==
  \A g \in Gem :
    /\ state.bank[g] >= 0
    /\ \A i \in DOMAIN state.players : state.players[i].gems[g] >= 0


GoldOf(s, i) == s.players[i].gems[GOLD]

(* C19: a player's Gold grows only in a successful step whose action is a  *)
(* Reserve with take_gold taken by that player, and then by exactly one;   *)
(* a Take3 that names Gold and a Take2 of Gold never pass validation.      *)
C19_GoldOnlyByReserve ==
  /\ [][\A i \in DOMAIN state.players :
          GoldOf(state', i) > GoldOf(state, i) =>
            /\ ~err'
            /\ i = Seat(state)
            /\ state'.last_action.type = "reserve_card"
            /\ state'.last_action.take_gold
            /\ GoldOf(state', i) = GoldOf(state, i) + 1]_vars
  /\ [](\A a \in {Take3Action(GemsOf({"red", GOLD}), FALSE, EmptyBag),
                  Take3Action(GemsOf({GOLD}), FALSE, EmptyBag),
                  Take2Action(GOLD, 2, FALSE, EmptyBag)} :
          ~_check(a, Acting, state))


DefaultTokens(n) == CASE n = 2 -> 4 [] n = 3 -> 5 [] OTHER -> 7

(* C20: without a configured coin_init the default per-colour count is 4   *)
(* for two players, 5 for three and 7 for four, and the bank of a fresh    *)
(* engine holds that many tokens of every colour but Gold.                 *)
C20_DefaultCoinInit ==
  \A n \in {2, 3, 4} :
    /\ coin_init(n) = DefaultTokens(n)
    /\ \A g \in StdGems : new_state(n, seed).bank[g] = DefaultTokens(n)


(***************************************************************************)
(* Construction failures.  GameConfig.__post_init__ raises ValueError for  *)
(* a non-positive player count and, when no coin_init is given, the table  *)
(* lookup raises IndexError past the end of COIN_DEFAULT_INIT; Engine.new  *)
(* tests num_players < 1 and then builds the GameConfig.                   *)
(***************************************************************************)
GameConfig_raises(num_players) ==
  \/ num_players <= 0
  \/ (IF num_players > 5 THEN num_players ELSE 5) - 1 >= Len(COIN_DEFAULT_INIT)

Engine_new_raises(num_players) ==
  num_players < 1 \/ GameConfig_raises(num_players)

PlayerCounts == (0 - 2)..7

(* C21: building a GameConfig or an Engine succeeds exactly for the player *)
(* counts 1 to 4; for every other count construction fails and no engine   *)
(* exists, and a built engine has that many players.                       *)
C21_PlayerCountValidated ==
  \A n \in PlayerCounts :
    /\ ~GameConfig_raises(n) <=> n \in 1..4
    /\ ~Engine_new_raises(n) <=> n \in 1..4
    /\ ~Engine_new_raises(n) => NumPlayers(new_state(n, seed)) = n


(* C22: the visible roles are the same before and after every successful   *)
(* step (apply followed by advance_turn), so in every state they are the   *)
(* roles drawn when the engine was built.                                  *)
C22_RolesCarried ==
  /\ [][~err' => state'.visible_roles = state.visible_roles]_vars
  /\ [](state.visible_roles = new_roles(NumPlayers(state), seed))


(***************************************************************************)
(* Seeded games.  Engines built by Engine.new from a seed and played by    *)
(* replay, by single steps and by play_one_round.  StuckGame is a          *)
(* three-player game in which seat 0 buys the whole catalogue and the      *)
(* players end up holding every coloured token, so that nobody is offered  *)
(* anything but the Noop.                                                  *)
(***************************************************************************)
StuckGame ==
  LET TakeOnly(g) == Take3Action(GemsOf({g}), FALSE, EmptyBag)
      BuyAt(i, card, paid) == BuyCardAction("visible", i, card, [g \in paid |-> 1])
  IN <<TakeAll, TakeAll, TakeAll,
       BuyAt(3, 5, {"white"}), TakeAll, TakeAll,
       BuyAt(4, 1, {}), TakeAll, TakeAll,
       BuyAt(0, 2, {}), TakeOnly("white"), NoopAction,
       BuyAt(1, 4, {"red"}), NoopAction, TakeOnly("red"),
       BuyAt(0, 3, {"blue"}), NoopAction, NoopAction,
       BuyAt(0, 6, {}), NoopAction, NoopAction,
       TakeOnly("blue"), NoopAction, NoopAction>>

RecordedGames == Recorded \cup {<<3, StuckGame>>, <<2, <<TakeAll>>>>}

InitGame ==
  \E r \in RecordedGames, sd \in Seeds :
    /\ ~replay_raises(EngineNew(r[1], sd), r[2])
    /\ \E e \in {replay(EngineNew(r[1], sd), r[2])} :
         /\ state = e.state
         /\ decks_by_level = e.decks
         /\ action_history = e.history
    /\ seed = sd
    /\ err = FALSE
    /\ steps = 0
    /\ all_noops_last_round = FALSE

SpecGame == InitGame /\ [][NextRound]_vars

(* C23: a fresh engine built from the same seed that replays the recorded  *)
(* action history reports the same game_end() and the same winners as the  *)
(* engine the game was played on.                                          *)
C23_ReplaySameOutcome ==
  \A fresh \in {replay(EngineNew(NumPlayers(state), seed), action_history)} :
    /\ game_end(fresh.state, FALSE) = game_end(state, all_noops_last_round)
    /\ game_winners(fresh.state) = game_winners(state)


(***************************************************************************)
(* Hands near the cap.  A solo engine set up by hand, as the tests of the  *)
(* enumerations do: the player holds a hand of at most cap tokens with at  *)
(* most MaxRoom free places (few Gold tokens, or all of them), the bank    *)
(* holds the rest, and one enumerated action is applied.                   *)
(***************************************************************************)
MaxRoom == 3

HandChoices ==
  {h \in [Gem -> 0..coin_init(1)] :
     /\ h[GOLD] <= MaxHeld \/ h[GOLD] = coin_gold_init
     /\ h[GOLD] <= coin_gold_init
     /\ count(h) <= coin_max_count_per_player
     /\ count(h) + MaxRoom >= coin_max_count_per_player}

InitHands ==
  \E held \in HandChoices :
    /\ state = HandMadeEngine(held, <<>>, 0).state
    /\ decks_by_level = HandMadeEngine(held, <<>>, 0).decks
    /\ action_history = <<>>
    /\ seed = 0
    /\ err = FALSE
    /\ steps = 0
    /\ all_noops_last_round = FALSE

OfferedOnce == steps = 0 /\ \E a \in Offered(state) : Step(a)

SpecHands == InitHands /\ [][OfferedOnce]_vars

TakesEnumerated(player, s) ==
  (IF Take3_get_legal_raises(player, s) THEN {} ELSE Take3_get_legal_actions(player, s))
  \cup Take2_get_legal_actions(player, s)

Taken(a, g) == IF a.type = "take_2_same" THEN (IF a.gem = g THEN a.count ELSE 0)
               ELSE a.gems[g]

(* C24: every enumerated Take3 or Take2 whose tokens would take the acting *)
(* player over the hand cap carries returns of exactly held + taken - cap  *)
(* tokens, of standard colours it does not take and within the player's    *)
(* holdings; applying it leaves the player with exactly cap tokens and the *)
(* bank changed by the taken and the returned tokens.                      *)
C24_TakeReturnsToCap ==
  \A a \in TakesEnumerated(Acting, state) :
    LET held == count(Acting.gems)
        taken == SumOver([g \in Gem |-> Taken(a, g)], Gem)
        after == apply(a, state)
    IN held + taken > coin_max_count_per_player =>
         /\ a.has_ret
         /\ count(a.ret) = held + taken - coin_max_count_per_player
         /\ \A g \in DOMAIN a.ret :
              /\ g # GOLD
              /\ Taken(a, g) = 0
              /\ a.ret[g] <= Acting.gems[g]
         /\ ~apply_raises(a, state)
         /\ count(after.players[Seat(state)].gems) = coin_max_count_per_player
         /\ \A g \in Gem : after.bank[g] = state.bank[g] - Taken(a, g) + get(a.ret, g)

(* A Take3 that returned two tokens and a Take2 that returned one have     *)
(* been applied.                                                           *)
C24_Witness ==
  /\ steps = 1
  /\ ~err
  /\ state.last_action.type = "take_3_different"
  /\ count(state.last_action.ret) = 2
  /\ count(state.players[0].gems) = coin_max_count_per_player


(* The (colours taken, gems returned) pair of a Take action. *)
TakePair(a) ==
  <<{g \in Gem : Taken(a, g) > 0}, IF Truthy(a.has_ret, a.ret) THEN a.ret ELSE EmptyBag>>

(* The multisets of size r over the standard colours outside `taken`,      *)
(* within the player's holdings.                                           *)
Multisets(player, taken, r) ==
  {NormBag(f) : f \in {h \in [StdGems \ taken -> 0..r] :
                         /\ SumOver(h, StdGems \ taken) = r
                         /\ \A g \in StdGems \ taken : h[g] <= player.gems[g]}}

(* The pairs of the Take3 enumeration as stated: takes of at least `least` *)
(* colours.                                                                *)
Take3Pairs(player, s, least) ==
  LET available == {g \in StdGems : s.bank[g] >= 1}
      k == Min(Cardinality(available), 3)
      held == count(player.gems)
      cap == coin_max_count_per_player
      combos(n) == {T \in SUBSET available : Cardinality(T) = n /\ n >= least}
  IN IF held + k <= cap
     THEN {<<T, EmptyBag>> : T \in combos(k)}
     ELSE UNION {UNION {{<<T, m>> : m \in Multisets(player, T, r)} :
                        T \in combos(cap - held + r)} :
                 r \in 0..(held + k - cap)}

Take2Pairs(player, s) ==
  LET held == count(player.gems)
      cap == coin_max_count_per_player
  IN UNION {IF held + 2 <= cap THEN {<<{g}, EmptyBag>>}
            ELSE {<<{g}, m>> : m \in Multisets(player, {g}, held + 2 - cap)} :
            g \in {h \in Gem : h # GOLD /\ s.bank[h] >= 4}}

(* Take2 actions a caller may submit: any colour, with or without returns. *)
Take2Submitted(player) ==
  {Take2Action(g, 2, FALSE, EmptyBag) : g \in Gem}
  \cup UNION {{Take2Action(g, 2, TRUE, m) : m \in Multisets(player, {g}, r)} :
              g \in Gem, r \in 0..2}

(* C26: a Take2 of colour g is enumerated, and passes validation, only if  *)
(* g is not Gold and the bank holds at least 4 of g; for each such g the   *)
(* enumeration holds one action without returns when held + 2 <= cap, and  *)
(* otherwise one action per return multiset of size held + 2 - cap over    *)
(* the held standard colours other than g.                                 *)
C26_Take2Exact ==
  /\ {TakePair(a) : a \in Take2_get_legal_actions(Acting, state)}
       = Take2Pairs(Acting, state)
  /\ Cardinality(Take2_get_legal_actions(Acting, state))
       = Cardinality(Take2Pairs(Acting, state))
  /\ \A a \in Take2_get_legal_actions(Acting, state) :
       /\ a.count = 2
       /\ a.gem # GOLD
       /\ state.bank[a.gem] >= 4
       /\ count(Acting.gems) + 2 <= coin_max_count_per_player => ~Truthy(a.has_ret, a.ret)
  /\ \A a \in Take2Submitted(Acting) :
       _check(a, Acting, state) => a.gem # GOLD /\ state.bank[a.gem] >= 4

(* A Take2 with two returned tokens was applied by a player at the cap,    *)
(* while another colour's pile was too small to take two of.               *)
C26_Witness ==
  /\ steps = 1
  /\ ~err
  /\ state.last_action.type = "take_2_same"
  /\ count(state.last_action.ret) = 2
  /\ count(state.players[0].gems) = coin_max_count_per_player
  /\ \E g \in StdGems : state.bank[g] \in 2..3


(* C27: when the acting player can reserve, the enumerated Reserve actions *)
(* are, for each visible card, one action with take_gold = (bank Gold > 0) *)
(* and no return when the Gold taken would not exceed the hand cap, and    *)
(* otherwise one action per standard colour the player holds, with         *)
(* take_gold set and that colour returned; a player holding exactly cap    *)
(* tokens is offered a Reserve only without Gold or with a returned gem,   *)
(* and holds exactly cap tokens after applying it.                         *)
C27_ReserveExact ==
  can_reserve(Acting) =>
    LET E == Reserve_get_legal_actions(Acting, state)
        held == count(Acting.gems)
        gold == state.bank[GOLD] > 0
        over == gold /\ held + 1 > coin_max_count_per_player
        colours == {g \in Gem : g # GOLD /\ Acting.gems[g] > 0}
    IN /\ \A a \in E : /\ a.idx_kind = "visible"
                       /\ a.idx \in 0..(Len(state.visible_cards) - 1)
                       /\ a.card = state.visible_cards[a.idx + 1]
       /\ \A j \in 1..Len(state.visible_cards) :
            LET Ej == {a \in E : a.idx = j - 1}
            IN IF ~over
               THEN /\ Cardinality(Ej) = 1
                    /\ \A a \in Ej : a.take_gold = gold /\ a.ret_gem = "none"
               ELSE /\ {a.ret_gem : a \in Ej} = colours
                    /\ Cardinality(Ej) = Cardinality(colours)
                    /\ \A a \in Ej : a.take_gold
       /\ held = coin_max_count_per_player =>
            \A a \in E :
              /\ ~a.take_gold \/ a.ret_gem # "none"
              /\ ~apply_raises(a, state)
              /\ count(apply(a, state).players[Seat(state)].gems)
                   = coin_max_count_per_player

(* A player at the cap has reserved a card, taken a Gold and returned a    *)
(* gem.                                                                    *)
C27_Witness ==
  /\ steps = 1
  /\ ~err
  /\ state.last_action.type = "reserve_card"
  /\ state.last_action.take_gold
  /\ state.last_action.ret_gem # "none"
  /\ count(state.players[0].gems) = coin_max_count_per_player
  /\ Len(state.players[0].reserved_cards) = 1


(* The cards at the locations a Buy may name: the visible slots and the    *)
(* slots of the player's own reserved pile.                                *)
BuyLocations(player, s) ==
  {<<"visible", j - 1, s.visible_cards[j]>> : j \in 1..Len(s.visible_cards)}
  \cup {<<"reserve", j - 1, player.reserved_cards[j]>> : j \in 1..Len(player.reserved_cards)}

(* C28: the enumerated Buy actions are exactly one per (location, payment) *)
(* with the location a visible slot or a slot of the acting player's own   *)
(* reserved pile and the payment an affordable payment of the card there;  *)
(* none is enumerated for an unaffordable card, for a card of another      *)
(* player's reserved pile or for a deck top.                               *)
C28_BuyExact ==
  LET E == Buy_get_legal_actions(Acting, state)
      L == BuyLocations(Acting, state)
  IN /\ \A a \in E : /\ <<a.idx_kind, a.idx, a.card>> \in L
                     /\ ExactPayment(a.payment, Acting, a.card)
     /\ \A l \in L : \A p \in can_afford(Acting, l[3]) :
          Cardinality({a \in E : <<a.idx_kind, a.idx, a.card>> = l /\ a.payment = p}) = 1
     /\ \A l \in L : can_afford(Acting, l[3]) = {} => \A a \in E : a.card # l[3]
     /\ \A q \in DOMAIN state.players \ {Seat(state)} :
          \A a \in E : a.card \notin SeqSet(state.players[q].reserved_cards)
     /\ \A a \in E : \A lvl \in Levels :
          decks_by_level[lvl] # <<>> => a.card # decks_by_level[lvl][Len(decks_by_level[lvl])]

(* The acting player is offered a Buy of a card of their own reserved pile *)
(* and of a visible card, cannot afford another visible card, and the      *)
(* other player has a reserved pile.                                       *)
C28_Witness ==
  /\ NumPlayers(state) = 2
  /\ \E a, b \in Buy_get_legal_actions(Acting, state) :
       a.idx_kind = "reserve" /\ b.idx_kind = "visible"
  /\ \E j \in 1..Len(state.visible_cards) : can_afford(Acting, state.visible_cards[j]) = {}
  /\ state.players[1 - Seat(state)].reserved_cards # <<>>


(* The action a successful step applied. *)
Applied == action_history'[Len(action_history')]

(* The state a Buy of the card at slot pos of its location is to leave:    *)
(* the input state with the card moved to the purchased list, its points   *)
(* and bonus credited, the payment moved to the bank, last_action set.     *)
BuyExpected(a, s, pos) ==
  LET seat == Seat(s)
      from_reserved == a.idx_kind = "reserve"
      c == IF from_reserved THEN s.players[seat].reserved_cards[pos]
           ELSE s.visible_cards[pos]
  IN [s EXCEPT
        !.players[seat].gems = [g \in Gem |-> @[g] - get(a.payment, g)],
        !.players[seat].score = @ + CardPoints(c),
        !.players[seat].purchased_cards = Append(@, c),
        !.players[seat].discounts = [g \in Gem |-> @[g] + (IF CardBonus(c) = g THEN 1 ELSE 0)],
        !.players[seat].reserved_cards = IF from_reserved THEN RemoveAt(@, pos) ELSE @,
        !.visible_cards = IF from_reserved THEN @ ELSE RemoveAt(@, pos),
        !.bank = [g \in Gem |-> @[g] + get(a.payment, g)],
        !.last_action = a]

(* C29: a Buy that was applied removed exactly the referenced card from    *)
(* its location, appended it to the acting player's purchased list, added  *)
(* its points to that player's score, moved exactly the payment from the   *)
(* player to the bank and changed nothing else in the GameState.           *)
C29_BuyFrame ==
  [][(~err' /\ Applied.type = "buy_card") =>
       /\ Applied.idx_kind \in {"visible", "reserve"}
       /\ Applied.idx >= 0
       /\ apply(Applied, state) = BuyExpected(Applied, state, Applied.idx + 1)]_vars

(* The state a Reserve of the visible card at slot pos is to leave. *)
ReserveExpected(a, s, pos) ==
  LET seat == Seat(s)
      delta(g) == (IF a.take_gold /\ g = GOLD THEN 1 ELSE 0)
                  - (IF a.ret_gem = g THEN 1 ELSE 0)
  IN [s EXCEPT
        !.players[seat].gems = [g \in Gem |-> @[g] + delta(g)],
        !.players[seat].reserved_cards = Append(@, s.visible_cards[pos]),
        !.visible_cards = RemoveAt(@, pos),
        !.bank = [g \in Gem |-> @[g] - delta(g)],
        !.last_action = a]

(* The slot of the visible list a Reserve refers to: its index, counted    *)
(* from the end when negative, or the first slot holding its card.         *)
ReferredSlots(a, s) ==
  {pos \in 1..Len(s.visible_cards) :
     /\ a.idx_kind = "visible" => pos = (IF a.idx < 0 THEN Len(s.visible_cards) + a.idx + 1
                                         ELSE a.idx + 1)
     /\ a.card # 0 => s.visible_cards[pos] = a.card
     /\ a.idx_kind # "visible" => \A k \in 1..(pos - 1) : s.visible_cards[k] # a.card}

(* C30: a Reserve that was applied removed exactly the referenced card     *)
(* from the visible list and appended it to the acting player's reserved   *)
(* pile, moved one Gold from the bank to the player exactly when take_gold *)
(* is set, one gem of the returned colour from the player to the bank      *)
(* exactly when one is named, and changed nothing else in the GameState.   *)
C30_ReserveFrame ==
  [][(~err' /\ Applied.type = "reserve_card") =>
       /\ Cardinality(ReferredSlots(Applied, state)) = 1
       /\ \A pos \in ReferredSlots(Applied, state) :
            apply(Applied, state) = ReserveExpected(Applied, state, pos)]_vars


(* Buy and Reserve values whose card cross-check names another card than   *)
(* the one at their idx: every slot of the grid and of the acting player's *)
(* reserved pile (counted from either end), every other catalogue card,    *)
(* and for a Buy every payment that would buy either card.                 *)
StaleActions(player, s) ==
  UNION {UNION {{BuyCardAction("visible", i, c, p) :
                   p \in can_afford(player, PyAt(s.visible_cards, i)) \cup can_afford(player, c)}
                \cup {ReserveCardAction("visible", i, c, g, "none") : g \in BOOLEAN} :
                c \in Cards \ {PyAt(s.visible_cards, i)}} :
         i \in (0 - Len(s.visible_cards))..(Len(s.visible_cards) - 1)}
  \cup
  UNION {UNION {{BuyCardAction("reserve", i, c, p) :
                   p \in can_afford(player, PyAt(player.reserved_cards, i)) \cup can_afford(player, c)} :
                c \in Cards \ {PyAt(player.reserved_cards, i)}} :
         i \in (0 - Len(player.reserved_cards))..(Len(player.reserved_cards) - 1)}

(* C31: in every state in which a call is still made, a Buy or Reserve     *)
(* whose card cross-check differs from the card at its idx fails           *)
(* validation, so apply raises; a call that raises leaves                  *)
(* the state as it was, and a Buy or Reserve that was applied with a       *)
(* cross-check moved that very card.                                       *)
C31_StaleCardRejected ==
  /\ [](steps < MaxSteps =>
          \A a \in StaleActions(Acting, state) :
            ~_check(a, Acting, state) /\ apply_raises(a, state))
  /\ [][(err' /\ steps' = steps + 1) =>
          UNCHANGED <<state, decks_by_level, action_history>>]_vars
  /\ [][(/\ ~err'
          /\ Len(action_history') = Len(action_history) + 1
          /\ Applied.type \in {"buy_card", "reserve_card"}
          /\ Applied.card # 0) =>
          LET mover == state'.players[Seat(state)]
          IN IF Applied.type = "buy_card"
             THEN mover.purchased_cards[Len(mover.purchased_cards)] = Applied.card
             ELSE mover.reserved_cards[Len(mover.reserved_cards)] = Applied.card]_vars

(* A call was rejected in a state where the acting player could buy a      *)
(* visible card and a card of their reserved pile.                         *)
C31_Witness ==
  /\ err
  /\ steps > 0
  /\ Acting.reserved_cards # <<>>
  /\ \E a, b \in StaleActions(Acting, state) :
       /\ a.type = "buy_card" /\ a.idx_kind = "reserve"
       /\ b.type = "buy_card" /\ b.idx_kind = "visible"
       /\ b.payment \in can_afford(Acting, PyAt(state.visible_cards, b.idx))


(* C32: an action value that passes the stateless and the stateful check   *)
(* for the acting player is applied without an error.                      *)
C32_CheckedApplies ==
  steps < MaxSteps =>
    \A a \in Inputs(state) :
      _check(a, Acting, state) => ~_apply_raises(a, Acting, state)


(* ---------------------------------------------------------------------- *)
(* The visible grid right after construction                              *)
(* ---------------------------------------------------------------------- *)

LevelGroup(visible, lvl) == SelectSeq(visible, LAMBDA c : CardLevel(c) = lvl)

Constructed == action_history = <<>> /\ steps = 0

(* C33: in the state produced by Engine construction, within each level's *)
(* group of the visible list the cards appear in draw order: the          *)
(* top-of-deck card first, then the second from the top, and so on.       *)
C33_GridInDrawOrder ==
  Constructed =>
    \A lvl \in Levels :
      LevelGroup(state.visible_cards, lvl)
        = Drawn(shuffle_assets(seed)[lvl], card_visible_count)


(* C34: in every reachable state the visible list is organized by level:  *)
(* the cards of one level are contiguous and lower levels come before     *)
(* higher ones, also after buys, reserves and refills.                    *)
C34_GridByLevel ==
  \A i, j \in 1..Len(state.visible_cards) :
    i < j => CardLevel(state.visible_cards[i]) <= CardLevel(state.visible_cards[j])


(* ---------------------------------------------------------------------- *)
(* GameState.advance_turn on its own                                      *)
(* ---------------------------------------------------------------------- *)

(* advance_turn() called without decks: no refill, turn + 1. *)
advance_turn_no_decks(s) ==
  GameState(s.players, s.bank, s.visible_cards, s.turn + 1, s.last_action)

(* A state handed to advance_turn: a freshly built game whose grid shows   *)
(* any cards of the catalogue, at most per_level of a level, with any of   *)
(* the other cards left in the decks, in the order the seed shuffled them. *)
InitAdvance ==
  \E n \in {1, 2}, sd \in Seeds :
  \E place \in [Cards -> {"visible", "deck", "gone"}] :
    LET shown == {c \in Cards : place[c] = "visible"}
        every == shuffle(CatalogueDeck(1) \o CatalogueDeck(2), sd)
        e == EngineNew(n, sd)
    IN /\ \A lvl \in Levels :
            Cardinality({c \in shown : CardLevel(c) = lvl}) <= per_level
       /\ state = [e.state EXCEPT !.visible_cards =
                                     SelectSeq(every, LAMBDA c : c \in shown)]
       /\ decks_by_level =
            [lvl \in Levels |->
               SelectSeq(shuffle_assets(sd)[lvl], LAMBDA c : place[c] = "deck")]
       /\ action_history = <<>>
       /\ seed = sd
       /\ err = FALSE
       /\ steps = 0
       /\ all_noops_last_round = FALSE

AdvanceTurn ==
  /\ steps = 0
  /\ state' = advance_turn_state(state, decks_by_level)
  /\ decks_by_level' = advance_turn_decks(state, decks_by_level)
  /\ steps' = steps + 1
  /\ UNCHANGED <<action_history, seed, err, all_noops_last_round>>

AdvanceTurnNoDecks ==
  /\ steps = 0
  /\ state' = advance_turn_no_decks(state)
  /\ steps' = steps + 1
  /\ UNCHANGED <<decks_by_level, action_history, seed, err, all_noops_last_round>>

NextAdvance == AdvanceTurn \/ AdvanceTurnNoDecks

SpecAdvance == InitAdvance /\ [][NextAdvance]_vars

(* What the refill of one level moves: min(per_level - count, deck size)   *)
(* cards when the level shows fewer than per_level, else none.             *)
Moved(s, decks, lvl) ==
  IF LevelCount(s.visible_cards, lvl) < per_level
  THEN Min(per_level - LevelCount(s.visible_cards, lvl), Len(decks[lvl]))
  ELSE 0

(* The statement of advance_turn(decks) about s, decks and its results t, d. *)
AdvancedAsStated(s, decks, t, d) ==
  /\ t.turn = s.turn + 1
  /\ t.players = s.players /\ t.bank = s.bank /\ t.last_action = s.last_action
  /\ Len(t.visible_cards) >= Len(s.visible_cards)
  /\ SubSeq(t.visible_cards, 1, Len(s.visible_cards)) = s.visible_cards
  /\ \A lvl \in Levels :
       LET k == Moved(s, decks, lvl)
       IN /\ d[lvl] = SubSeq(decks[lvl], 1, Len(decks[lvl]) - k)
          /\ LevelGroup(SubSeq(t.visible_cards, Len(s.visible_cards) + 1,
                               Len(t.visible_cards)), lvl)
               = [j \in 1..k |-> decks[lvl][Len(decks[lvl]) - j + 1]]

roles_deck_left(n, sd) == Rest(shuffle(RolesCatalogue, sd), n + 1)

(* An engine object holds its GameState by value (GameState is immutable)  *)
(* and refers to a dict of per-level lists, a roles list and a history     *)
(* list.  A heap maps addresses to the mutable objects; an engine whose    *)
(* dict is at address b has its roles at b + 1, its history at b + 2 and   *)
(* the list of level lvl at b + 2 + lvl.                                   *)
EngineAt(s, b) == [state |-> s, decks |-> b, roles_deck |-> b + 1, history |-> b + 2]

Cells(b, decks, roles, history) ==
  (b :> [lvl \in Levels |-> b + 2 + lvl])
  @@ (b + 1 :> roles) @@ (b + 2 :> history)
  @@ [ad \in {b + 2 + lvl : lvl \in Levels} |-> decks[ad - b - 2]]

(* What an engine object shows through the heap. *)
Loaded(obj, heap) ==
  [state |-> obj.state,
   decks |-> [lvl \in Levels |-> heap[heap[obj.decks][lvl]]],
   roles_deck |-> heap[obj.roles_deck],
   history |-> heap[obj.history]]

(* clone() that copies the dict of decks but not the lists in it. *)
clone_shallow_decks(obj, heap, b) ==
  [obj |-> EngineAt(obj.state, b),
   heap |-> (b :> heap[obj.decks]) @@ (b + 1 :> heap[obj.roles_deck])
            @@ (b + 2 :> heap[obj.history]) @@ heap]

(* Engine.clone: the same GameState, a new dict with a copy of every      *)
(* level's list, a copy of the roles list and a copy of the history.       *)
clone(obj, heap, b) ==
  [obj |-> EngineAt(obj.state, b),
   heap |-> Cells(b, Loaded(obj, heap).decks, heap[obj.roles_deck],
                  heap[obj.history]) @@ heap]

(* One step of an engine object: the action applied to its state, then     *)
(* advance_turn popping from its lists in place, then the action appended  *)
(* to its history list in place.                                           *)
engine_step(obj, heap, a) ==
  LET e == replay_one([state |-> obj.state, decks |-> Loaded(obj, heap).decks,
                       history |-> heap[obj.history]], a)
      lists == {heap[obj.decks][lvl] : lvl \in Levels}
      LevelAt(ad) == CHOOSE lvl \in Levels : heap[obj.decks][lvl] = ad
  IN [obj |-> [obj EXCEPT !.state = e.state],
      heap |-> [ad \in DOMAIN heap |->
                  IF ad \in lists THEN e.decks[LevelAt(ad)]
                  ELSE IF ad = obj.history THEN e.history
                  ELSE heap[ad]]]

(* The engine of the current state as an object at address 1, its clone    *)
(* at the next free address.                                               *)
Original == EngineAt(state, 1)
OriginalHeap ==
  Cells(1, decks_by_level, roles_deck_left(NumPlayers(state), seed), action_history)
Cloned == clone(Original, OriginalHeap, 4 + Cardinality(Levels))

(* C36: right after engine.clone() the two engines have equal state,       *)
(* decks and history; stepping the clone leaves the original's GameState,  *)
(* decks, roles deck and history unchanged, and stepping the original      *)
(* leaves the clone's unchanged.                                           *)
C36_CloneIndependent ==
  steps < MaxSteps =>
    /\ Loaded(Cloned.obj, Cloned.heap) = Loaded(Original, Cloned.heap)
    /\ Loaded(Original, Cloned.heap) = Loaded(Original, OriginalHeap)
    /\ \A a \in Offered(state) :
         /\ Loaded(Original, engine_step(Cloned.obj, Cloned.heap, a).heap)
              = Loaded(Original, OriginalHeap)
         /\ Loaded(Cloned.obj, engine_step(Original, Cloned.heap, a).heap)
              = Loaded(Cloned.obj, Cloned.heap)
         /\ Loaded(engine_step(Cloned.obj, Cloned.heap, a).obj,
                   engine_step(Cloned.obj, Cloned.heap, a).heap)
              = Loaded(engine_step(Original, Cloned.heap, a).obj,
                       engine_step(Original, Cloned.heap, a).heap)

(* A state with a recorded history where a step of the clone pops a card   *)
(* off a deck and leaves a role in the roles deck untouched.               *)
C36_Witness ==
  /\ steps < MaxSteps
  /\ action_history # <<>>
  /\ roles_deck_left(NumPlayers(state), seed) # <<>>
  /\ \E a \in Offered(state) :
       /\ Loaded(engine_step(Cloned.obj, Cloned.heap, a).obj,
                 engine_step(Cloned.obj, Cloned.heap, a).heap).decks
            # decks_by_level
       /\ Loaded(Original, engine_step(Cloned.obj, Cloned.heap, a).heap).decks
            = decks_by_level


(* ---------------------------------------------------------------------- *)
(* Where the cards are                                                    *)
(* ---------------------------------------------------------------------- *)

Occurrences(seq, c) == Cardinality({j \in 1..Len(seq) : seq[j] = c})

(* How many times card c occurs over the decks, the visible list and the   *)
(* players' reserved and purchased lists.                                  *)
Copies(c) ==
  LET n == NumPlayers(state)
      InDecks[l \in 0..Cardinality(Levels)] ==
        IF l = 0 THEN 0 ELSE InDecks[l - 1] + Occurrences(decks_by_level[l], c)
      InPiles[p \in 0..n] ==
        IF p = 0 THEN 0
        ELSE InPiles[p - 1]
             + Occurrences(state.players[p - 1].reserved_cards, c)
             + Occurrences(state.players[p - 1].purchased_cards, c)
  IN InDecks[Cardinality(Levels)] + Occurrences(state.visible_cards, c) + InPiles[n]

IsPrefix(s, t) == Len(s) <= Len(t) /\ SubSeq(t, 1, Len(s)) = s

(* C37: every card of the catalogue is in exactly one place (one level     *)
(* deck, the visible list, or one player's reserved or purchased list);    *)
(* no step duplicates or loses a card, and a card never leaves a           *)
(* purchased list.                                                         *)
C37_CardsConserved ==
  /\ [](\A c \in Cards : Copies(c) = 1)
  /\ [](\A l \in Levels : \A j \in 1..Len(decks_by_level[l]) :
          CardLevel(decks_by_level[l][j]) = l)
  /\ [][\A p \in DOMAIN state.players :
          IsPrefix(state.players[p].purchased_cards,
                   state'.players[p].purchased_cards)]_vars

(* A player holds a purchased card and a reserved card, a refill has       *)
(* emptied a deck, and a further step has been taken.                      *)
C37_Witness ==
  /\ steps > 0
  /\ \E p \in DOMAIN state.players :
       /\ state.players[p].purchased_cards # <<>>
       /\ state.players[p].reserved_cards # <<>>
  /\ \A l \in Levels : decks_by_level[l] = <<>>


(* ---------------------------------------------------------------------- *)
(* Who is offered and who acts in play_one_round                          *)
(* ---------------------------------------------------------------------- *)

(* The turns of play_one_round from engine e at loop index `seat`: for     *)
(* each way the agents can choose, the list of pairs (the seat whose       *)
(* legal actions were offered, the seat action.apply acted for).           *)
RECURSIVE RoundSeats(_, _, _)
RoundSeats(e, seat, n) ==
  IF seat = n THEN {<<>>}
  ELSE IF get_legal_raises(e.state.players[seat], e.state) THEN {<<>>}
  ELSE LET turn == [offered |-> seat, acting |-> Seat(e.state)]
       IN UNION {IF apply_raises(a, e.state)
                 THEN {<<turn>>}
                 ELSE {<<turn>> \o t : t \in RoundSeats(replay_one(e, a), seat + 1, n)} :
                 a \in get_legal_actions(e.state.players[seat], e.state)}

(* C38: whenever play_one_round runs on an engine reached by Engine.new,   *)
(* deserialize, replay and play_one_round calls, in each of its n turns    *)
(* the seat whose legal actions are offered is the seat the action is      *)
(* applied to (state.turn mod n), and each seat acts exactly once.         *)
C38_OfferedSeatActs ==
  steps = 0 =>
    \A t \in RoundSeats(Engine, 0, NumPlayers(state)) :
      /\ \A k \in 1..Len(t) : t[k].offered = t[k].acting
      /\ Len(t) = NumPlayers(state) =>
           \A p \in DOMAIN state.players :
             Cardinality({k \in 1..Len(t) : t[k].acting = p}) = 1


(* ---------------------------------------------------------------------- *)
(* Deadlock                                                               *)
(* ---------------------------------------------------------------------- *)

(* Games that end in a deadlock: the recorded game StuckGame, taken up   *)
(* at any of its last MaxBack turns or at its end.                         *)
MaxBack == 9

StuckPrefixes ==
  {SubSeq(StuckGame, 1, k) : k \in (Len(StuckGame) - MaxBack)..Len(StuckGame)}

InitStuck ==
  \E actions \in StuckPrefixes, sd \in Seeds :
    /\ ~replay_raises(EngineNew(3, sd), actions)
    /\ \E e \in {replay(EngineNew(3, sd), actions)} :
         /\ state = e.state
         /\ decks_by_level = e.decks
         /\ action_history = e.history
    /\ seed = sd
    /\ err = FALSE
    /\ steps = 0
    /\ all_noops_last_round = FALSE

SpecStuck == InitStuck /\ [][NextRound]_vars

(* Every seat's legal list is exactly [Noop]. *)
Deadlocked ==
  \A p \in DOMAIN state.players :
    /\ ~get_legal_raises(state.players[p], state)
    /\ get_legal_actions(state.players[p], state) = {NoopAction}

====
